---- MODULE Spec2Model ----
(***************************************************************************)
(* Model of generate_ingress_reports.py: the Loader (read_json_file), the  *)
(* Extractor (extract_ingress_info), the Reporter (generate_markdown_table)*)
(* the Orchestrator (process_all_clusters) and the top-level driver.       *)
(*                                                                         *)
(* Text is modelled as sequences of one-character strings, so that join,   *)
(* split, endswith and the substring test are computed, not assumed.       *)
(* An optional JSON key is a sequence of length 0 (key absent) or 1.       *)
(***************************************************************************)
EXTENDS Integers, Sequences, FiniteSets, TLC

VARIABLES
    dirExists,          \* whether INFO_CACHE_DIR exists
    fs,                 \* the input directory: file name -> file content
    pc,                 \* position of the run
    listing,            \* matching entries the first loop has processed, in order
    scanned,            \* number of matching entries the second loop has processed
    processed_clusters, \* process_all_clusters' local set
    results,            \* the output directory: file name -> written report
    stdout,             \* lines printed, in order
    log,                \* logging records emitted, in order
    json_data,          \* the document most recently returned by read_json_file
    ingress_info,       \* the list most recently returned by extract_ingress_info
    exc                 \* the exception in flight ("" when none)

vars == <<dirExists, fs, pc, listing, scanned, processed_clusters, results,
          stdout, log, json_data, ingress_info, exc>>

----------------------------------------------------------------------------
(* Bounds of the model *)

MaxItems == 2   \* items per snapshot document in the orchestrator's runs
MaxRules == 2   \* rules per item in the extractor's inputs
MaxPaths == 2   \* HTTP paths per item (over all its rules) in the extractor's inputs
MaxLb    == 1   \* load-balancer entries per item in the extractor's inputs

----------------------------------------------------------------------------
(* Text *)

NA       == <<"N","/","A">>
CommaSp  == <<","," ">>
S80      == <<"8","0">>
S443     == <<"4","4","3">>
Suffix   == <<"_","i","n","g","r","e","s","s",".","j","s","o","n">>
MdSuffix == <<"_","i","n","g","r","e","s","s",".","m","d">>

Digits == <<"0","1","2","3","4","5","6","7","8","9">>

\* str(n) for a non-negative integer
RECURSIVE Str(_)
Str(n) == IF n < 10 THEN <<Digits[n + 1]>>
          ELSE Str(n \div 10) \o <<Digits[(n % 10) + 1]>>

\* sep.join(parts)
RECURSIVE Join(_, _)
Join(parts, sep) ==
    IF parts = <<>> THEN <<>>
    ELSE IF Len(parts) = 1 THEN parts[1]
    ELSE parts[1] \o sep \o Join(Tail(parts), sep)

\* sub occurs in s at position i
OccursAt(s, sub, i) ==
    /\ i + Len(sub) - 1 <= Len(s)
    /\ \A k \in 1..Len(sub) : s[i + k - 1] = sub[k]

\* sub in s
Contains(s, sub) == \E i \in 1..(Len(s) + 1) : OccursAt(s, sub, i)

\* s.endswith(suf)
EndsWith(s, suf) ==
    /\ Len(suf) <= Len(s)
    /\ OccursAt(s, suf, Len(s) - Len(suf) + 1)

\* s.split(c)[0]
SplitFirst(s, c) ==
    IF \E i \in 1..Len(s) : s[i] = c
    THEN LET i == CHOOSE j \in 1..Len(s) :
                      s[j] = c /\ \A k \in 1..(j - 1) : s[k] # c
         IN  SubSeq(s, 1, i - 1)
    ELSE s

\* the enumeration orders of a set: every sequence listing it once each
RECURSIVE SetOrders(_)
SetOrders(S) ==
    IF S = {} THEN {<<>>}
    ELSE UNION {{<<x>> \o o : o \in SetOrders(S \ {x})} : x \in S}

----------------------------------------------------------------------------
(* Extractor: extract_ingress_info *)

\* item.get('spec', {}).get('rules', [])
Rules(item) ==
    IF item.spec = <<>> THEN <<>>
    ELSE IF item.spec[1].rules = <<>> THEN <<>>
    ELSE item.spec[1].rules[1]

\* item.get('status', {}).get('loadBalancer', {}).get('ingress', [])
LbIngress(item) == item.lb

\* 'tls' in item.get('spec', {})
HasTls(item) == item.spec # <<>> /\ item.spec[1].tls

\* mutant: a missing host left blank instead of marked 'N/A'
HostOf_Blank(rule) == IF rule.host = <<>> THEN <<>> ELSE rule.host[1]

\* rule.get('host', 'N/A')
HostOf(rule) == IF rule.host = <<>> THEN NA ELSE rule.host[1]

\* mutant: a missing ip left blank instead of marked 'N/A'
IpOf_Blank(lb) == IF lb = <<>> THEN <<>> ELSE lb[1]

\* lb.get('ip', 'N/A')
IpOf(lb) == IF lb = <<>> THEN NA ELSE lb[1]

\* hosts = ", ".join(rule.get('host', 'N/A') for rule in rules)
Hosts(item) ==
    Join([i \in 1..Len(Rules(item)) |-> HostOf(Rules(item)[i])], CommaSp)

\* address = ", ".join(lb.get('ip', 'N/A') for lb in ingress)
Address(item) ==
    Join([i \in 1..Len(LbIngress(item)) |-> IpOf(LbIngress(item)[i])], CommaSp)

\* str(path.get('backend', {}).get('service', {}).get('port', {}).get('number', '80'))
ServicePort(path) == IF path = <<>> THEN S80 ELSE Str(path[1])

\* mutant: the TLS section does not add "443"
PortSet_NoTls(item) ==
    UNION {{ServicePort(Rules(item)[i].paths[j]) : j \in 1..Len(Rules(item)[i].paths)} :
             i \in 1..Len(Rules(item))}

\* the set `ports` after the loops over the rules and their paths
PortSet(item) ==
    (IF HasTls(item) THEN {S443} ELSE {})
    \cup UNION {{ServicePort(Rules(item)[i].paths[j]) : j \in 1..Len(Rules(item)[i].paths)} :
                  i \in 1..Len(Rules(item))}

\* mutant: no fallback to "80"
PortsStr_NoFallback(order) == Join(order, CommaSp)

\* ports_str = ", ".join(ports) if ports else "80"; order is the order in
\* which the set enumerates its members
PortsStr(order) == IF order # <<>> THEN Join(order, CommaSp) ELSE S80

\* mutant: the hosts check tests emptiness only
HostsWarn_EmptyOnly(hosts) == hosts = <<>>

\* if 'N/A' in hosts or not hosts
HostsWarn(hosts) == Contains(hosts, NA) \/ hosts = <<>>

\* mutant: the address check written like the hosts check
AddressWarn_LikeHosts(address) == Contains(address, NA) \/ address = <<>>

\* if not address
AddressWarn(address) == address = <<>>

\* if not ports_str
PortsWarn(ports_str) == ports_str = <<>>

LogRec(level, what, item) ==
    [level |-> level, what |-> what,
     namespace |-> item.metadata.namespace, name |-> item.metadata.name]

\* mutant: name and namespace appended in the wrong order
ItemRow_NameFirst(item, order) ==
    <<item.metadata.name, item.metadata.namespace,
      Hosts(item), Address(item), PortsStr(order)>>

\* the record appended for one item
ItemRow(item, order) ==
    <<item.metadata.namespace, item.metadata.name,
      Hosts(item), Address(item), PortsStr(order)>>

\* the logging calls made for one item, in order
ItemLog(item, row) ==
    <<LogRec("INFO", "extract", item)>>
    \o (IF HostsWarn(row[3]) THEN <<LogRec("WARNING", "hosts", item)>> ELSE <<>>)
    \o (IF AddressWarn(row[4]) THEN <<LogRec("WARNING", "address", item)>> ELSE <<>>)
    \o (IF PortsWarn(row[5]) THEN <<LogRec("WARNING", "ports", item)>> ELSE <<>>)

\* the outcomes of the loop over a list of items: the list built and the
\* logging done, one outcome per enumeration order of each item's port set
RECURSIVE ExtractItems(_)
ExtractItems(items) ==
    IF items = <<>> THEN {[info |-> <<>>, log |-> <<>>]}
    ELSE {[info |-> <<ItemRow(Head(items), o)>> \o r.info,
           log  |-> ItemLog(Head(items), ItemRow(Head(items), o)) \o r.log] :
            <<o, r>> \in SetOrders(PortSet(Head(items))) \X ExtractItems(Tail(items))}

extract_ingress_info(data) == ExtractItems(data)

----------------------------------------------------------------------------
(* Inputs of the extractor's specification *)

Namespace1 == <<"n","s">>
Name1      == <<"w","e","b">>

HostChoices == {<<>>, << <<>> >>, << <<"a">> >>}
PortChoices == {<<>>, <<80>>, <<443>>}
IpChoices   == {<<>>, << <<>> >>, << <<"1">> >>}

SeqsUpTo(S, n) == UNION {[1..k -> S] : k \in 0..n}

\* a rule with at most n paths
RuleChoices(n) == [host : HostChoices, paths : SeqsUpTo(PortChoices, n)]

\* the lists of at most n rules holding at most b paths between them
RECURSIVE RuleListsOf(_, _)
RuleListsOf(n, b) ==
    IF n = 0 THEN {<<>>}
    ELSE {<<>>} \cup UNION {{<<r>> \o rest : rest \in RuleListsOf(n - 1, b - Len(r.paths))} :
                              r \in RuleChoices(b)}

RuleLists == RuleListsOf(MaxRules, MaxPaths)

SpecChoices ==
    {<<>>} \cup {<<[tls |-> t, rules |-> r]>> :
                   <<t, r>> \in BOOLEAN \X ({<<>>} \cup {<<rs>> : rs \in RuleLists})}

ExtractorItems ==
    [metadata : {[namespace |-> Namespace1, name |-> Name1]},
     spec : SpecChoices,
     lb : SeqsUpTo(IpChoices, MaxLb)]

----------------------------------------------------------------------------
(* The extractor on its own: one document of one item, any item *)

InitExtract ==
    /\ dirExists = TRUE
    /\ fs = <<>>
    /\ pc = "extract"
    /\ listing = <<>>
    /\ scanned = 0
    /\ processed_clusters = {}
    /\ results = <<>>
    /\ stdout = <<>>
    /\ log = <<>>
    /\ json_data \in {<<it>> : it \in ExtractorItems}
    /\ ingress_info = <<>>
    /\ exc = ""

ExtractOnly ==
    /\ pc = "extract"
    /\ \E r \in extract_ingress_info(json_data) :
          /\ ingress_info' = r.info
          /\ log' = r.log
    /\ pc' = "extracted"
    /\ UNCHANGED <<dirExists, fs, listing, scanned, processed_clusters,
                   results, stdout, json_data, exc>>

NextExtract == ExtractOnly

SpecExtract == InitExtract /\ [][NextExtract]_vars

----------------------------------------------------------------------------
(* Loader: read_json_file *)

\* A file of the input directory is a JSON document ("json", with its item
\* list), text that is not JSON ("malformed"), a file the process may not
\* read ("denied"), or an entry whose target is gone ("dangling": a broken
\* symbolic link, which os.listdir lists and open() does not find).
read_json_file(content) ==
    CASE content.kind = "json"      -> [ok |-> TRUE,  data |-> content.doc, exc |-> ""]
      [] content.kind = "malformed" -> [ok |-> FALSE, data |-> <<>>, exc |-> "JSONDecodeError"]
      [] content.kind = "denied"    -> [ok |-> FALSE, data |-> <<>>, exc |-> "PermissionError"]
      [] content.kind = "dangling"  -> [ok |-> FALSE, data |-> <<>>, exc |-> "FileNotFoundError"]

----------------------------------------------------------------------------
(* Orchestrator: process_all_clusters, and the driver under __main__ *)

EXPECTED_CLUSTERS == {<<"c","l","u","s","t","e","r","1">>, <<"c","l","u","s","t","e","r","2">>}

\* filename.endswith("_ingress.json")
IsIngressFile(filename) == EndsWith(filename, Suffix)

\* cluster_name = filename.split("_")[0]
ClusterName(filename) == SplitFirst(filename, "_")

\* mutant: the cluster name is not cut at the hyphen
ClusterPrefix_NoCut(cluster_name) == cluster_name

\* cluster_prefix = cluster_name.split('-')[0]
ClusterPrefix(cluster_name) == SplitFirst(cluster_name, "-")

\* output_file = os.path.join(output_dir, f"{cluster_name}_ingress.md")
OutputFile(cluster_name) == cluster_name \o MdSuffix

\* missed_clusters = EXPECTED_CLUSTERS - processed_clusters
MissedClusters(processed) == EXPECTED_CLUSTERS \ processed

\* a printed line; the fields a line does not use are empty
Line(kind, cluster, namespace, name, hosts, missed) ==
    [kind |-> kind, cluster |-> cluster, namespace |-> namespace,
     name |-> name, hosts |-> hosts, missed |-> missed]

\* open(output_file, 'w') and write: creates the file or replaces its content
WriteFile(dir, path, content) ==
    [n \in DOMAIN dir \cup {path} |-> IF n = path THEN content ELSE dir[n]]

\* the lines the second loop prints for one document
RECURSIVE IssueLines(_, _)
IssueLines(cluster_name, items) ==
    IF items = <<>> THEN <<>>
    ELSE (IF HostsWarn(Hosts(Head(items)))
          THEN <<Line("issue", cluster_name, Head(items).metadata.namespace,
                      Head(items).metadata.name, Hosts(Head(items)), <<>>)>>
          ELSE <<>>)
         \o IssueLines(cluster_name, Tail(items))

\* for filename in os.listdir(info_cache_dir): if filename.endswith(...):
\* the entries the loop body runs for (it does nothing for the others)
IngressFiles == {filename \in DOMAIN fs : IsIngressFile(filename)}

\* those of them the first loop has yet to reach; os.listdir yields the
\* entries in an arbitrary order
Unlisted == IngressFiles \ {listing[k] : k \in 1..Len(listing)}

\* process_all_clusters up to the first os.listdir, which raises when the
\* directory does not exist (the results directory is created empty)
Start ==
    /\ pc = "start"
    /\ processed_clusters' = {}
    /\ IF dirExists
       THEN pc' = "pass1" /\ exc' = exc
       ELSE pc' = "raised" /\ exc' = "FileNotFoundError"
    /\ UNCHANGED <<dirExists, fs, listing, scanned, results, stdout, log,
                   json_data, ingress_info>>

\* first loop, a matching entry: read, extract, write the report
ProcessFile ==
    /\ pc = "pass1"
    /\ \E filename \in Unlisted :
          LET cluster_name == ClusterName(filename)
              loaded == read_json_file(fs[filename])
          IN  /\ loaded.ok
              /\ listing' = Append(listing, filename)
              /\ processed_clusters' =
                     processed_clusters \cup {ClusterPrefix(cluster_name)}
              /\ json_data' = loaded.data
              /\ \E r \in extract_ingress_info(loaded.data) :
                    /\ ingress_info' = r.info
                    /\ log' = log \o r.log
                    /\ results' = WriteFile(results, OutputFile(cluster_name),
                                            [cluster |-> cluster_name, rows |-> r.info])
              /\ stdout' = Append(stdout, Line("created", cluster_name, <<>>, <<>>, <<>>, <<>>))
    /\ UNCHANGED <<dirExists, fs, pc, scanned, exc>>

\* first loop, a matching entry that read_json_file cannot load
ProcessFileRaises ==
    /\ pc = "pass1"
    /\ \E filename \in Unlisted :
          LET cluster_name == ClusterName(filename)
              loaded == read_json_file(fs[filename])
          IN  /\ ~loaded.ok
              /\ listing' = Append(listing, filename)
              /\ processed_clusters' =
                     processed_clusters \cup {ClusterPrefix(cluster_name)}
              /\ exc' = loaded.exc
    /\ pc' = "raised"
    /\ UNCHANGED <<dirExists, fs, scanned, results, stdout, log, json_data,
                   ingress_info>>

\* after the first loop: the completeness message and the summary's heading
CheckExpected ==
    /\ pc = "pass1"
    /\ Unlisted = {}
    /\ \E order \in SetOrders(MissedClusters(processed_clusters)) :
          stdout' = stdout
              \o <<IF MissedClusters(processed_clusters) # {}
                   THEN Line("missed", <<>>, <<>>, <<>>, <<>>, order)
                   ELSE Line("allok", <<>>, <<>>, <<>>, <<>>, <<>>)>>
              \o <<Line("summary", <<>>, <<>>, <<>>, <<>>, <<>>)>>
    /\ pc' = "pass2"
    /\ scanned' = 0
    /\ UNCHANGED <<dirExists, fs, listing, processed_clusters, results, log,
                   json_data, ingress_info, exc>>

\* second loop, a matching entry: read again, print the items with issues
ScanFile ==
    /\ pc = "pass2"
    /\ scanned < Len(listing)
    /\ LET filename == listing[scanned + 1]
           loaded == read_json_file(fs[filename])
       IN  /\ loaded.ok
           /\ json_data' = loaded.data
           /\ stdout' = stdout \o IssueLines(ClusterName(filename), loaded.data)
    /\ scanned' = scanned + 1
    /\ UNCHANGED <<dirExists, fs, pc, listing, processed_clusters, results,
                   log, ingress_info, exc>>

\* after the second loop: the closing notice, and the function returns
Finish ==
    /\ pc = "pass2"
    /\ scanned = Len(listing)
    /\ stdout' = Append(stdout, Line("hinweis", <<>>, <<>>, <<>>, <<>>, <<>>))
    /\ pc' = "done"
    /\ UNCHANGED <<dirExists, fs, listing, scanned, processed_clusters,
                   results, log, json_data, ingress_info, exc>>

\* except FileNotFoundError as e: print the message about the directory
CatchFileNotFound ==
    /\ pc = "raised"
    /\ exc = "FileNotFoundError"
    /\ stdout' = Append(stdout, Line("nodir", <<>>, <<>>, <<>>, <<>>, <<>>))
    /\ pc' = "handled"
    /\ UNCHANGED <<dirExists, fs, listing, scanned, processed_clusters,
                   results, log, json_data, ingress_info, exc>>

\* any other exception leaves the try statement: the run ends with a traceback
Uncaught ==
    /\ pc = "raised"
    /\ exc # "FileNotFoundError"
    /\ pc' = "fatal"
    /\ UNCHANGED <<dirExists, fs, listing, scanned, processed_clusters,
                   results, stdout, log, json_data, ingress_info, exc>>

----------------------------------------------------------------------------
(* Inputs of the orchestrator's specification *)

FileA == <<"c","l","u","s","t","e","r","1","-","a","_","i","n","g","r","e","s","s",".","j","s","o","n">>
FileB == <<"c","l","u","s","t","e","r","2","-","b","_","i","n","g","r","e","s","s",".","j","s","o","n">>
FileC == <<"c","l","u","s","t","e","r","1","-","a","_","x","_","i","n","g","r","e","s","s",".","j","s","o","n">>
FileY == <<"c","l","u","s","t","e","r","2","-","c","_","i","n","g","r","e","s","s",".","y","a","m","l">>

SnapshotNames == {FileA, FileB, FileC}

ItemWeb == [metadata |-> [namespace |-> Namespace1, name |-> Name1],
            spec |-> <<[tls |-> FALSE,
                        rules |-> << <<[host |-> << <<"a">> >>, paths |-> << <<80>> >>]>> >>]>>,
            lb |-> << << <<"1">> >> >>]
ItemApi == [metadata |-> [namespace |-> Namespace1, name |-> <<"a","p","i">>],
            spec |-> <<[tls |-> TRUE,
                        rules |-> << <<[host |-> <<>>, paths |-> <<>>]>> >>]>>,
            lb |-> << <<>> >>]
ItemDb  == [metadata |-> [namespace |-> Namespace1, name |-> <<"d","b">>],
            spec |-> <<>>,
            lb |-> <<>>]

SampleItems == {ItemWeb, ItemApi, ItemDb}

\* the documents: lists of distinct items (an ingress is listed once)
SampleDocs ==
    {d \in SeqsUpTo(SampleItems, MaxItems) :
        \A i, j \in 1..Len(d) : i # j => d[i] # d[j]}

Contents ==
    {[kind |-> "json", doc |-> d] : d \in SampleDocs}
    \cup {[kind |-> k, doc |-> <<>>] : k \in {"malformed", "denied", "dangling"}}

Directories ==
    {m @@ o : m \in UNION {[S -> Contents] : S \in SUBSET SnapshotNames},
              o \in {<<>>, FileY :> [kind |-> "json", doc |-> <<>>]}}

Init ==
    /\ \/ dirExists = TRUE /\ fs \in Directories
       \/ dirExists = FALSE /\ fs = <<>>
    /\ pc = "start"
    /\ listing = <<>>
    /\ scanned = 0
    /\ processed_clusters = {}
    /\ results = <<>>
    /\ stdout = <<>>
    /\ log = <<>>
    /\ json_data = <<>>
    /\ ingress_info = <<>>
    /\ exc = ""

Next ==
    \/ Start
    \/ ProcessFile
    \/ ProcessFileRaises
    \/ CheckExpected
    \/ ScanFile
    \/ Finish
    \/ CatchFileNotFound
    \/ Uncaught

Spec == Init /\ [][Next]_vars

----------------------------------------------------------------------------
(* Claims about the orchestrator and the driver, checked under Spec *)

\* how many lines of a kind have been printed
RECURSIVE CountKind(_, _)
CountKind(lines, kind) ==
    IF lines = <<>> THEN 0
    ELSE (IF Head(lines).kind = kind THEN 1 ELSE 0) + CountKind(Tail(lines), kind)

\* the directory's entries whose name ends with "_ingress.json"
SnapshotFiles ==
    {f \in DOMAIN fs :
        /\ Len(f) >= 13
        /\ SubSeq(f, Len(f) - 12, Len(f)) =
               <<"_","i","n","g","r","e","s","s",".","j","s","o","n">>}

\* g is the part of f before its first '_', cut again before its first '-'
IsGroupOf(g, f) ==
    /\ Len(g) < Len(f)
    /\ SubSeq(f, 1, Len(g)) = g
    /\ f[Len(g) + 1] \in {"_", "-"}
    /\ \A k \in 1..Len(g) : g[k] \notin {"_", "-"}

\* the expected groups with no snapshot file
GroupsWithoutSnapshot ==
    {g \in EXPECTED_CLUSTERS : ~\E f \in SnapshotFiles : IsGroupOf(g, f)}

\* C1: once every matching entry has been processed, exactly one of the two
\* completeness messages is printed: the warning, listing exactly the
\* expected groups that have no snapshot file, when there is such a group,
\* and the confirmation otherwise; none is printed before.
C1_CompletenessMessage ==
    LET warned    == CountKind(stdout, "missed")
        confirmed == CountKind(stdout, "allok")
    IN  IF pc \in {"pass2", "done"}
        THEN /\ warned + confirmed = 1
             /\ confirmed = 1 <=> GroupsWithoutSnapshot = {}
             /\ \A k \in 1..Len(stdout) :
                   stdout[k].kind = "missed" =>
                      /\ {stdout[k].missed[i] : i \in 1..Len(stdout[k].missed)}
                             = GroupsWithoutSnapshot
                      /\ Len(stdout[k].missed) = Cardinality(GroupsWithoutSnapshot)
        ELSE warned + confirmed = 0

C1_Witness ==
    /\ pc = "done"
    /\ FileA \in DOMAIN fs
    /\ FileY \in DOMAIN fs
    /\ FileB \notin DOMAIN fs
    /\ CountKind(stdout, "missed") = 1

\* C2 as stated: after a completed run the output directory holds one report
\* per matching input file, each {cluster_name}_ingress.md, so N inputs give
\* exactly N reports.
C2_OneReportPerInput ==
    pc = "done" =>
        /\ \A f \in SnapshotFiles : OutputFile(ClusterName(f)) \in DOMAIN results
        /\ Cardinality(DOMAIN results) = Cardinality(SnapshotFiles)

\* C3 as stated: the driver recovers, printing the message about the
\* directory, if and only if the input directory does not exist; every
\* other failure is fatal and prints no such message.
C3_RecoversOnlyMissingDirectory ==
    /\ pc \in {"handled", "fatal"} => (pc = "handled" <=> ~dirExists)
    /\ CountKind(stdout, "nodir") > 0 => ~dirExists

\* how many issue lines (log warnings about hosts) name an item
RECURSIVE CountIssue(_, _)
CountIssue(lines, item) ==
    IF lines = <<>> THEN 0
    ELSE (IF /\ Head(lines).kind = "issue"
             /\ Head(lines).namespace = item.metadata.namespace
             /\ Head(lines).name = item.metadata.name
          THEN 1 ELSE 0) + CountIssue(Tail(lines), item)

RECURSIVE CountHostsWarning(_, _)
CountHostsWarning(records, item) ==
    IF records = <<>> THEN 0
    ELSE (IF /\ Head(records).level = "WARNING"
             /\ Head(records).what = "hosts"
             /\ Head(records).namespace = item.metadata.namespace
             /\ Head(records).name = item.metadata.name
          THEN 1 ELSE 0) + CountHostsWarning(Tail(records), item)

\* how many times an item occurs in the snapshot files of a set
RECURSIVE Occurrences(_, _)
Occurrences(files, item) ==
    IF files = {} THEN 0
    ELSE LET f == CHOOSE x \in files : TRUE
         IN  Cardinality({i \in 1..Len(fs[f].doc) : fs[f].doc[i] = item})
             + Occurrences(files \ {f}, item)

\* the text one rule contributes to hosts, as the claim states it
HostPiece(rule) == IF rule.host = <<>> THEN <<"N","/","A">> ELSE rule.host[1]

\* the derived hosts value of an item is empty or contains "N/A"
HostsMissing(item) ==
    LET h == Join([i \in 1..Len(Rules(item)) |-> HostPiece(Rules(item)[i])], <<",", " ">>)
    IN  h = <<>> \/ \E i \in 1..Len(h) : OccursAt(h, <<"N","/","A">>, i)

\* C4: in a completed run the second pass has printed one issue line per
\* item per matching file whose hosts value is empty or contains "N/A", and
\* none for any other item; the items listed are those the extractor warned
\* about in the first pass.
C4_IssueLines ==
    pc = "done" =>
        \A item \in SampleItems :
            /\ CountIssue(stdout, item) =
                   (IF HostsMissing(item) THEN Occurrences(SnapshotFiles, item) ELSE 0)
            /\ CountIssue(stdout, item) = CountHostsWarning(log, item)

C4_Witness ==
    /\ pc = "done"
    /\ CountIssue(stdout, ItemApi) = 2
    /\ CountIssue(stdout, ItemDb) = 1
    /\ Occurrences(SnapshotFiles, ItemWeb) = 1
    /\ \E k \in 1..Len(stdout) : stdout[k].kind = "issue" /\ stdout[k].hosts = <<"N","/","A">>
    /\ \E k \in 1..Len(stdout) : stdout[k].kind = "issue" /\ stdout[k].hosts = <<>>

\* x is a string
IsText(x) == DOMAIN x = 1..Len(x) /\ \A k \in 1..Len(x) : x[k] \in STRING

\* C5: extract_ingress_info returns one record per item of the document,
\* in the items' order, each of exactly 5 fields (namespace, name, hosts,
\* address, ports), all strings.
C5_OneRecordPerItem ==
    pc = "pass1" =>
        /\ Len(ingress_info) = Len(json_data)
        /\ \A i \in 1..Len(ingress_info) :
              /\ Len(ingress_info[i]) = 5
              /\ ingress_info[i][1] = json_data[i].metadata.namespace
              /\ ingress_info[i][2] = json_data[i].metadata.name
              /\ \A k \in 1..5 : IsText(ingress_info[i][k])

C5_Witness ==
    /\ pc = "pass1"
    /\ json_data = <<ItemApi, ItemWeb>>
    /\ Len(ingress_info) = 2
    /\ ingress_info[1][2] = <<"a","p","i">>
    /\ ingress_info[2][2] = <<"w","e","b">>

----------------------------------------------------------------------------
(* Claims about the extractor, checked under SpecExtract *)

\* the item extracted and the record built from it
XItem == json_data[1]
XRow  == ingress_info[1]
Logged(what) == \E k \in 1..Len(log) : log[k].level = "WARNING" /\ log[k].what = what

\* s.split(sep), for a separator of length 2
RECURSIVE SplitOn(_, _)
SplitOn(s, sep) ==
    IF \E i \in 1..Len(s) : OccursAt(s, sep, i)
    THEN LET i == CHOOSE j \in 1..Len(s) :
                      OccursAt(s, sep, j) /\ \A k \in 1..(j - 1) : ~OccursAt(s, sep, k)
         IN  <<SubSeq(s, 1, i - 1)>> \o SplitOn(SubSeq(s, i + Len(sep), Len(s)), sep)
    ELSE <<s>>

\* s is the pieces p[1..n] laid end to end with ", " between neighbours
IsJoinOf(s, p) ==
    LET n == Len(p)
        end[i \in 0..n] ==
            IF i = 0 THEN 0
            ELSE end[i - 1] + (IF i = 1 THEN 0 ELSE 2) + Len(p[i])
    IN  /\ Len(s) = end[n]
        /\ \A i \in 1..n :
              /\ SubSeq(s, end[i] - Len(p[i]) + 1, end[i]) = p[i]
              /\ i > 1 => SubSeq(s, end[i - 1] + 1, end[i - 1] + 2) = <<",", " ">>

\* C6: the hosts field is the ", "-join, in rule order, of each rule's host,
\* or of "N/A" in the place of a rule that has none; it is empty for an
\* empty or absent rule list.
C6_HostsJoin ==
    pc = "extracted" =>
        /\ IsJoinOf(XRow[3], [i \in 1..Len(Rules(XItem)) |-> HostPiece(Rules(XItem)[i])])
        /\ Rules(XItem) = <<>> => XRow[3] = <<>>

C6_Witness ==
    /\ pc = "extracted"
    /\ Len(Rules(XItem)) = 2
    /\ Rules(XItem)[1].host = <<>>
    /\ Rules(XItem)[2].host = << <<"a">> >>
    /\ XRow[3] = <<"N","/","A",","," ","a">>

\* C7 as stated: hosts is empty only when the rule list was empty, address
\* is empty only when the load-balancer ingress list was empty.
C7_EmptyOnlyIfSourceEmpty ==
    pc = "extracted" =>
        /\ XRow[3] = <<>> => Rules(XItem) = <<>>
        /\ XRow[4] = <<>> => LbIngress(XItem) = <<>>

\* C7 amended: hosts (address) is empty only when the rule (load-balancer
\* ingress) list was empty or was a single entry whose host (ip) is present
\* and is the empty string.
C7_EmptyOnlyIfNoText ==
    pc = "extracted" =>
        /\ XRow[3] = <<>> =>
              \/ Rules(XItem) = <<>>
              \/ Len(Rules(XItem)) = 1 /\ Rules(XItem)[1].host = << <<>> >>
        /\ XRow[4] = <<>> =>
              \/ LbIngress(XItem) = <<>>
              \/ Len(LbIngress(XItem)) = 1 /\ LbIngress(XItem)[1] = << <<>> >>

C7_Witness ==
    /\ pc = "extracted"
    /\ Len(Rules(XItem)) = 1
    /\ XRow[3] = <<>>
    /\ Len(LbIngress(XItem)) = 1
    /\ XRow[4] # <<>>

\* C8: the missing-address warning is emitted when the load-balancer ingress
\* list is empty (address is then empty), and is not emitted when the list
\* is non-empty and its entries lack an ip (address is then "N/A" entries);
\* the hosts warning does fire on a placeholder.
C8_AddressWarning ==
    pc = "extracted" =>
        /\ LbIngress(XItem) = <<>> => XRow[4] = <<>> /\ Logged("address")
        /\ (LbIngress(XItem) # <<>> /\ \A k \in 1..Len(LbIngress(XItem)) : LbIngress(XItem)[k] = <<>>) =>
              /\ IsJoinOf(XRow[4], [k \in 1..Len(LbIngress(XItem)) |-> <<"N","/","A">>])
              /\ ~Logged("address")
        /\ (\E i \in 1..Len(Rules(XItem)) : Rules(XItem)[i].host = <<>>) => Logged("hosts")

C8_Witness ==
    /\ pc = "extracted"
    /\ LbIngress(XItem) = << <<>> >>
    /\ XRow[4] = <<"N","/","A">>
    /\ ~Logged("address")
    /\ Logged("hosts")

\* the port strings the claim lists for an item
ClaimedPorts(item) ==
    LET fromTls   == IF item.spec # <<>> /\ item.spec[1].tls THEN {<<"4","4","3">>} ELSE {}
        rs        == Rules(item)
        fromPaths == UNION {{IF rs[i].paths[j] = <<>> THEN <<"8","0">> ELSE Str(rs[i].paths[j][1]) :
                               j \in 1..Len(rs[i].paths)} : i \in 1..Len(rs)}
    IN  IF fromTls \cup fromPaths = {} THEN {<<"8","0">>} ELSE fromTls \cup fromPaths

\* C9: the members of the ports field, split on ", ", are each exactly once
\* "443" if the spec has a TLS section, and the string form of every path's
\* port number, "80" for a path without one; the literal "80" when there is
\* none of these.
C9_PortsMembers ==
    pc = "extracted" =>
        LET parts == SplitOn(XRow[5], <<",", " ">>)
        IN  /\ {parts[k] : k \in 1..Len(parts)} = ClaimedPorts(XItem)
            /\ Len(parts) = Cardinality(ClaimedPorts(XItem))

C9_Witness ==
    /\ pc = "extracted"
    /\ HasTls(XItem)
    /\ Len(Rules(XItem)) = 1
    /\ Rules(XItem)[1].paths = << <<443>>, <<>> >>
    /\ XRow[5] = <<"8","0",","," ","4","4","3">>

\* C10: the ports string is never empty and the missing-ports warning is
\* never emitted.
C10_PortsNonEmpty ==
    /\ pc = "extracted" => XRow[5] # <<>>
    /\ ~Logged("ports")

C10_Witness ==
    /\ pc = "extracted"
    /\ ~HasTls(XItem)
    /\ \A i \in 1..Len(Rules(XItem)) : Rules(XItem)[i].paths = <<>>
    /\ XRow[5] = <<"8","0">>

====
